---- MODULE Spec2Model ----
(***************************************************************************)
(* Model of flaskext/handler.py: BaseHandler construction and the dispatch *)
(* pipeline BaseHandler.__call__ (with-block, renderer resolution, REST    *)
(* verb resolution, validation, invocation, rendering).                    *)
(*                                                                         *)
(* Python values are modelled as follows.                                  *)
(*   - None, where a string is expected, is the constant None.             *)
(*   - A value handed to or returned from user code is a record            *)
(*     [t |-> type name, v |-> sequence of atoms]; the atoms of a dict are *)
(*     its items.                                                          *)
(*   - An exception is a record [type, arg].                               *)
(*   - A string built with % formatting is the sequence of its parts.      *)
(* The user-supplied parts of a handler (validators, verb methods, the     *)
(* __enter__/__exit__ overrides, renderers) are arbitrary code: what they  *)
(* return or raise is chosen nondeterministically.                         *)
(***************************************************************************)
EXTENDS Integers, Sequences, FiniteSets, TLC

VARIABLES
    cls,        \* the handler class definition (class attributes, methods)
    METHODS,    \* self.METHODS, set by __init__
    pc,         \* position of the handler: construction / pipeline step
    request,    \* flask.request of the dispatch in progress
    kwargs,     \* the keyword arguments __call__ was invoked with
    renderer,   \* local 'renderer' of __call__
    method,     \* local 'method' of _resolve_rest_verb (the effective verb)
    verb,       \* local 'verb' of __call__
    returned,   \* what the validator returned, NoneVal if it was not called
    params,     \* local 'params' of __call__
    call,       \* how the verb method was invoked (positional, named)
    context,    \* local 'context' of __call__
    exc,        \* the exception in flight, NoExc if none
    raised,     \* the first exception raised inside the with-block
    exitResult, \* what __exit__ did in this dispatch
    output,     \* what __call__ handed back to its caller
    trace,      \* the callables invoked during this dispatch, in order
    handlers,   \* the handler classes add_handler was called with
    url_map,    \* the URL rules add_handler registered with the app
    dispatches, \* the frames of the __call__ invocations running concurrently
    pushed      \* the invocation whose request context was pushed last

appVars == <<handlers, url_map>>

concVars == <<dispatches, pushed>>

vars == <<cls, METHODS, pc, request, kwargs, renderer, method, verb,
          returned, params, call, context, exc, raised, exitResult, output,
          trace, appVars, concVars>>

----------------------------------------------------------------------------
(* Bounds *)

\* the largest number of methods (verb methods, validators) a handler class
\* defines
MaxAttrs == 2

\* the largest number of handler classes handed to one add_handler call
MaxHandlers == 2

\* the number of __call__ invocations running concurrently on one handler
MaxDispatches == 2

----------------------------------------------------------------------------
(* Values *)

None == "<None>"

NoneVal == [t |-> "NoneType", v |-> <<>>]
Str(s) == [t |-> "str", v |-> <<s>>]
List(s) == [t |-> "list", v |-> s]
Tuple(s) == [t |-> "tuple", v |-> s]
Dict(items) == [t |-> "dict", v |-> items]

\* Python truthiness of an optional string
Truthy(s) == s # None /\ s # ""

NoExc == [type |-> "none", arg |-> ""]
Exc(type, arg) == [type |-> type, arg |-> arg]

\* dict.get(key) of a mapping modelled as a function
Get(map, key) == IF key \in DOMAIN map THEN map[key] ELSE None

EmptyMap == [k \in {} |-> ""]

\* str.upper() and str.lower() on the strings that occur as verbs
Upper(s) ==
    CASE s = "get" -> "GET"
      [] s = "post" -> "POST"
      [] s = "put" -> "PUT"
      [] s = "delete" -> "DELETE"
      [] s = "head" -> "HEAD"
      [] OTHER -> s

Lower(s) ==
    CASE s = "GET" -> "get"
      [] s = "POST" -> "post"
      [] s = "PUT" -> "put"
      [] s = "DELETE" -> "delete"
      [] s = "HEAD" -> "head"
      [] OTHER -> s

\* "validate_%s_request" % verb
ValidatorName(v) ==
    CASE v = "get" -> "validate_get_request"
      [] v = "post" -> "validate_post_request"
      [] v = "put" -> "validate_put_request"
      [] v = "delete" -> "validate_delete_request"
      [] v = "head" -> "validate_head_request"
      [] OTHER -> "validate_?_request"

Range(s) == {s[i] : i \in DOMAIN s}

----------------------------------------------------------------------------
(* Module level *)

POSSIBLE_METHODS == <<"GET", "POST", "PUT", "DELETE", "HEAD">>

NoRenderer == [kind |-> "None", name |-> "", path |-> <<>>]
Func(name) == [kind |-> "func", name |-> name, path |-> <<>>]

\* _jinja_renderer(path): a closure over path
_jinja_renderer(path) ==
    [kind |-> "jinja", name |-> "render_from_dict", path |-> path]

\* renderer(context): flask.jsonify and the like receive the context;
\* render_from_dict calls flask.render_template(path) only
CallRenderer(r, ctx) ==
    IF r.kind = "jinja"
    THEN [t |-> "response", by |-> "render_template", path |-> r.path,
          arg |-> NoneVal]
    ELSE [t |-> "response", by |-> r.name, path |-> <<>>, arg |-> ctx]

----------------------------------------------------------------------------
(* Handler classes *)

\* the CUSTOM_RENDERER of BaseHandler
BaseCustomRenderer == ("json" :> "jsonify")

\* the CUSTOM_RENDERER attribute a handler class ends up with: inherited from
\* BaseHandler, or its own class attribute
CustomRendererChoices ==
    { BaseCustomRenderer,
      ("xml" :> "to_xml"),
      ("json" :> "my_json") @@ ("xml" :> "to_xml") }

VerbMethodNames == {Lower(POSSIBLE_METHODS[i]) : i \in DOMAIN POSSIBLE_METHODS}

ValidatorNames ==
    {ValidatorName("get"), ValidatorName("post"), ValidatorName("put")}

AttrNames == VerbMethodNames \cup ValidatorNames

\* what BaseHandler itself defines
BaseAttrs == {"ROUTE", "TEMPLATE_NAME", "DEFAULT_FORMAT", "METHOD_HACK",
              "CUSTOM_RENDERER", "__init__", "__call__", "__enter__",
              "__exit__", "_find_renderer", "_resolve_rest_verb"}

HandlerClasses ==
    [ROUTE : {None, "/"},
     TEMPLATE_NAME : {None, "", "profile"},
     DEFAULT_FORMAT : {"html", "json"},
     METHOD_HACK : {None, "", "__method__"},
     CUSTOM_RENDERER : CustomRendererChoices,
     attrs : {S \in SUBSET AttrNames : Cardinality(S) <= MaxAttrs}]

hasattr(c, name) == name \in c.attrs \cup BaseAttrs

\* getattr(self, name, None) is truthy
HasValidator(c, v) == hasattr(c, ValidatorName(v))

----------------------------------------------------------------------------
(* Requests *)

RequestMethods == Range(POSSIBLE_METHODS)

Forms == {EmptyMap} \cup {("__method__" :> f) : f \in {"", "put", "DELETE"}}

Values == {EmptyMap} \cup {("format" :> f) : f \in {"json", "xml"}}

Requests == [method : RequestMethods, form : Forms, values : Values]

NoRequest == [method |-> None, form |-> EmptyMap, values |-> EmptyMap]

KwargsChoices == {Dict(<<>>), Dict(<<"id=7">>)}

\* what a validator may return
ValidatorReturns ==
    {NoneVal, Str("user"), List(<<"user">>), Tuple(<<"user", "page">>),
     Dict(<<"user=u">>)}

\* what a verb method may return
MethodReturns == {Str("hello world"), Dict(<<"id=1">>)}

----------------------------------------------------------------------------
(* Pure parts of BaseHandler *)

\* the list comprehension with hasattr(self, meth): the verb is not
\* lower-cased
ComputeMethods_NoLower(c) ==
    SelectSeq(POSSIBLE_METHODS, LAMBDA meth : hasattr(c, meth))

\* __init__, the list comprehension
ComputeMethods(c) ==
    SelectSeq(POSSIBLE_METHODS, LAMBDA meth : hasattr(c, Lower(meth)))

\* _find_renderer with the template tested before the registered renderers
_find_renderer_TemplateFirst(c, req) ==
    LET f0 == Get(req.values, "format")
        format == IF f0 = None THEN c.DEFAULT_FORMAT ELSE f0
    IN  IF Truthy(c.TEMPLATE_NAME)
        THEN _jinja_renderer(<<c.TEMPLATE_NAME, ".", format>>)
        ELSE IF format \in DOMAIN c.CUSTOM_RENDERER
             THEN Func(c.CUSTOM_RENDERER[format])
             ELSE NoRenderer

\* _find_renderer with the handler's map layered over BaseHandler's
_find_renderer_Layered(c, req) ==
    LET f0 == Get(req.values, "format")
        format == IF f0 = None THEN c.DEFAULT_FORMAT ELSE f0
        layered == c.CUSTOM_RENDERER @@ BaseCustomRenderer
    IN  IF format \in DOMAIN layered
        THEN Func(layered[format])
        ELSE IF Truthy(c.TEMPLATE_NAME)
             THEN _jinja_renderer(<<c.TEMPLATE_NAME, ".", format>>)
             ELSE NoRenderer

\* _find_renderer
_find_renderer(c, req) ==
    LET f0 == Get(req.values, "format")
        format == IF f0 = None THEN c.DEFAULT_FORMAT ELSE f0
    IN  IF format \in DOMAIN c.CUSTOM_RENDERER
        THEN Func(c.CUSTOM_RENDERER[format])
        ELSE IF Truthy(c.TEMPLATE_NAME)
             THEN _jinja_renderer(<<c.TEMPLATE_NAME, ".", format>>)
             ELSE NoRenderer

\* _resolve_rest_verb without the test method == "POST"
EffectiveMethod_AnyMethod(c, req) ==
    LET fake_meth == IF Truthy(c.METHOD_HACK)
                     THEN Get(req.form, c.METHOD_HACK)
                     ELSE None
    IN  IF Truthy(fake_meth) THEN fake_meth ELSE req.method

\* _resolve_rest_verb, the local 'method' when the membership test is reached
EffectiveMethod(c, req) ==
    LET fake_meth == IF req.method = "POST" /\ Truthy(c.METHOD_HACK)
                     THEN Get(req.form, c.METHOD_HACK)
                     ELSE None
    IN  IF req.method = "POST" /\ Truthy(c.METHOD_HACK) /\ Truthy(fake_meth)
        THEN fake_meth
        ELSE req.method

\* the membership test against POSSIBLE_METHODS instead of self.METHODS
Allowed_Possible(meths, m) == Upper(m) \in Range(POSSIBLE_METHODS)

\* _resolve_rest_verb, the membership test
Allowed(meths, m) == Upper(m) \in Range(meths)

\* _resolve_rest_verb, the raise statement: evaluating the message
\* "% is an invalid method" % meth reads the undefined name 'meth'
InvalidMethodError(m) == Exc("NameError", "meth")

\* the invocation without the isinstance(params, dict) branch
Invocation_NoDict(name, p) ==
    IF p.t \in {"list", "tuple"}
    THEN [name |-> name, args |-> [i \in DOMAIN p.v |-> Str(p.v[i])],
          kwargs |-> <<>>]
    ELSE [name |-> name, args |-> <<p>>, kwargs |-> <<>>]

\* the invocation with a None parameter set passed as no parameter at all
Invocation_NoneAsNoArgs(name, p) ==
    IF p.t \in {"list", "tuple"}
    THEN [name |-> name, args |-> [i \in DOMAIN p.v |-> Str(p.v[i])],
          kwargs |-> <<>>]
    ELSE IF p.t = "dict"
         THEN [name |-> name, args |-> <<>>, kwargs |-> p.v]
         ELSE IF p = NoneVal
              THEN [name |-> name, args |-> <<>>, kwargs |-> <<>>]
              ELSE [name |-> name, args |-> <<p>>, kwargs |-> <<>>]

\* __call__, the three invocation forms
Invocation(name, p) ==
    IF p.t \in {"list", "tuple"}
    THEN [name |-> name, args |-> [i \in DOMAIN p.v |-> Str(p.v[i])],
          kwargs |-> <<>>]
    ELSE IF p.t = "dict"
         THEN [name |-> name, args |-> <<>>, kwargs |-> p.v]
         ELSE [name |-> name, args |-> <<p>>, kwargs |-> <<>>]

NoCall == [name |-> "", args |-> <<>>, kwargs |-> <<>>]

----------------------------------------------------------------------------
(* State machine *)

ResetDispatch ==
    /\ request = NoRequest
    /\ kwargs = NoneVal
    /\ renderer = NoRenderer
    /\ method = None
    /\ verb = None
    /\ returned = NoneVal
    /\ params = NoneVal
    /\ call = NoCall
    /\ context = NoneVal
    /\ exc = NoExc
    /\ raised = NoExc
    /\ exitResult = "not run"
    /\ output = NoneVal
    /\ trace = <<>>

\* no app and no concurrent invocations
NoApp == handlers = <<>> /\ url_map = <<>>

NoDispatches == dispatches = <<>> /\ pushed = 0

Init ==
    /\ cls \in HandlerClasses
    /\ METHODS = <<>>
    /\ pc = "new"
    /\ ResetDispatch
    /\ NoApp
    /\ NoDispatches

\* BaseHandler.__init__
Construct ==
    /\ pc = "new"
    /\ UNCHANGED <<appVars, concVars>>
    /\ IF cls.ROUTE = None
       THEN /\ pc' = "init failed"
            /\ exc' = Exc("NotImplementedError", "ROUTE")
            /\ METHODS' = METHODS
       ELSE /\ pc' = "idle"
            /\ exc' = exc
            /\ METHODS' = ComputeMethods(cls)
    /\ UNCHANGED <<cls, request, kwargs, renderer, method, verb, returned,
                   params, call,
                   context, raised, exitResult, output, trace>>

\* a with statement whose __exit__ result is read the wrong way round
AfterExit_Inverted(r, e) ==
    CASE r = "raise" -> Exc("ExitError", "__exit__")
      [] r = "truthy" -> e
      [] OTHER -> NoExc

\* the exception that leaves the with statement, given what __exit__ did (r)
\* and the exception e in flight when the block was left
AfterExit(r, e) ==
    CASE r = "raise" -> Exc("ExitError", "__exit__")
      [] r = "truthy" -> NoExc
      [] OTHER -> e

\* an error that leaves __call__ directly, as without the with statement
Raise_NoTeardown(e) ==
    /\ exc' = e
    /\ raised' = e
    /\ pc' = "done"

\* an error leaves the with-block body: control goes to __exit__
Raise(e) ==
    /\ exc' = e
    /\ raised' = e
    /\ pc' = "exit"

\* __call__ with __enter__ called inside the guarded block: __exit__ runs
\* after a failed __enter__
Call_EnterInsideBlock ==
    /\ pc = "idle"
    /\ UNCHANGED <<appVars, concVars>>
    /\ \E req \in IF request = NoRequest THEN Requests ELSE {request},
          kw \in IF kwargs = NoneVal THEN KwargsChoices ELSE {kwargs},
          ok \in BOOLEAN :
          /\ request' = req
          /\ kwargs' = kw
          /\ trace' = <<"__enter__">>
          /\ IF ok
             THEN /\ pc' = "find"
                  /\ exc' = exc
             ELSE /\ pc' = "exit"
                  /\ exc' = Exc("EnterError", "__enter__")
    /\ UNCHANGED <<cls, METHODS, renderer, method, verb, returned,
                   params, call,
                   context, raised, exitResult, output>>

\* __call__ up to and including 'with self:', which calls __enter__; the
\* request is the one the framework routed here, any request if the handler
\* is called directly
Call ==
    /\ pc = "idle"
    /\ UNCHANGED <<appVars, concVars>>
    /\ \E req \in IF request = NoRequest THEN Requests ELSE {request},
          kw \in IF kwargs = NoneVal THEN KwargsChoices ELSE {kwargs},
          ok \in BOOLEAN :
          /\ request' = req
          /\ kwargs' = kw
          /\ trace' = <<"__enter__">>
          /\ IF ok
             THEN /\ pc' = "find"
                  /\ exc' = exc
             ELSE /\ pc' = "done"
                  /\ exc' = Exc("EnterError", "__enter__")
    /\ UNCHANGED <<cls, METHODS, renderer, method, verb, returned,
                   params, call,
                   context, raised, exitResult, output>>

\* _find_renderer caching the template renderer it built in CUSTOM_RENDERER
FindRenderer_Caching ==
    /\ pc = "find"
    /\ UNCHANGED <<appVars, concVars>>
    /\ renderer' = _find_renderer(cls, request)
    /\ cls' = IF renderer'.kind = "jinja"
              THEN [cls EXCEPT !.CUSTOM_RENDERER =
                                  @ @@ (renderer'.path[3] :> renderer'.name)]
              ELSE cls
    /\ trace' = Append(trace, "_find_renderer")
    /\ pc' = "resolve"
    /\ UNCHANGED <<METHODS, request, kwargs, method, verb, returned,
                   params, call,
                   context, exc, raised, exitResult, output>>

\* renderer = self._find_renderer()
FindRenderer ==
    /\ pc = "find"
    /\ UNCHANGED <<appVars, concVars>>
    /\ renderer' = _find_renderer(cls, request)
    /\ trace' = Append(trace, "_find_renderer")
    /\ pc' = "resolve"
    /\ UNCHANGED <<cls, METHODS, request, kwargs, method, verb, returned,
                   params, call,
                   context, exc, raised, exitResult, output>>

\* verb = self._resolve_rest_verb().lower()
ResolveRestVerb ==
    /\ pc = "resolve"
    /\ UNCHANGED <<appVars, concVars>>
    /\ method' = EffectiveMethod(cls, request)
    /\ trace' = Append(trace, "_resolve_rest_verb")
    /\ IF Allowed(METHODS, method')
       THEN /\ verb' = Lower(method')
            /\ pc' = "validate"
            /\ UNCHANGED <<exc, raised>>
       ELSE /\ verb' = verb
            /\ Raise(InvalidMethodError(method'))
    /\ UNCHANGED <<cls, METHODS, request, kwargs, renderer, returned, params,
                   call, context, exitResult, output>>

\* the validator looked up by the literal request method
Validate_LiteralMethod ==
    /\ pc = "validate"
    /\ UNCHANGED <<appVars, concVars>>
    /\ IF ~hasattr(cls, verb)
       THEN /\ Raise(Exc("AttributeError", verb))
            /\ UNCHANGED <<trace, returned, params>>
       ELSE IF HasValidator(cls, Lower(request.method))
       THEN /\ trace' = Append(trace, ValidatorName(Lower(request.method)))
            /\ \/ \E r \in ValidatorReturns :
                    /\ returned' = r
                    /\ params' = r
                    /\ pc' = "invoke"
                    /\ UNCHANGED <<exc, raised>>
               \/ /\ UNCHANGED <<returned, params>>
                  /\ Raise(Exc("NotFound",
                               ValidatorName(Lower(request.method))))
       ELSE /\ params' = kwargs
            /\ pc' = "invoke"
            /\ UNCHANGED <<trace, returned, exc, raised>>
    /\ UNCHANGED <<cls, METHODS, request, kwargs, renderer, method, verb,
                   call, context, exitResult, output>>

\* validator = getattr(self, "validate_%s_request" % verb, None),
\* method = getattr(self, verb), and the if validator / else
Validate ==
    /\ pc = "validate"
    /\ UNCHANGED <<appVars, concVars>>
    /\ IF ~hasattr(cls, verb)
       THEN /\ Raise(Exc("AttributeError", verb))
            /\ UNCHANGED <<trace, returned, params>>
       ELSE IF HasValidator(cls, verb)
       THEN /\ trace' = Append(trace, ValidatorName(verb))
            /\ \/ \E r \in ValidatorReturns :
                    /\ returned' = r
                    /\ params' = r
                    /\ pc' = "invoke"
                    /\ UNCHANGED <<exc, raised>>
               \/ /\ UNCHANGED <<returned, params>>
                  /\ Raise(Exc("NotFound", ValidatorName(verb)))
       ELSE /\ params' = kwargs
            /\ pc' = "invoke"
            /\ UNCHANGED <<trace, returned, exc, raised>>
    /\ UNCHANGED <<cls, METHODS, request, kwargs, renderer, method, verb,
                   call, context, exitResult, output>>

\* the verb method's failure caught and the pipeline carried on
Invoke_CarriesOn ==
    /\ pc = "invoke"
    /\ UNCHANGED <<appVars, concVars>>
    /\ call' = Invocation(verb, params)
    /\ trace' = Append(trace, verb)
    /\ pc' = "render"
    /\ exc' = exc
    /\ \/ \E r \in MethodReturns :
            /\ context' = r
            /\ raised' = raised
       \/ /\ context' = context
          /\ raised' = Exc("MethodError", verb)
    /\ UNCHANGED <<cls, METHODS, request, kwargs, renderer, method, verb,
                   returned, params, exitResult, output>>

\* context = method(...) in the form the isinstance dispatch selects
Invoke ==
    /\ pc = "invoke"
    /\ UNCHANGED <<appVars, concVars>>
    /\ call' = Invocation(verb, params)
    /\ trace' = Append(trace, verb)
    /\ \/ \E r \in MethodReturns :
            /\ context' = r
            /\ pc' = "render"
            /\ UNCHANGED <<exc, raised>>
       \/ /\ context' = context
          /\ Raise(Exc("MethodError", verb))
    /\ UNCHANGED <<cls, METHODS, request, kwargs, renderer, method, verb,
                   returned, params, exitResult, output>>

\* __call__ returning the context without looking at the renderer
Render_Unrendered ==
    /\ pc = "render"
    /\ UNCHANGED <<appVars, concVars>>
    /\ trace' = trace
    /\ output' = context
    /\ pc' = "exit"
    /\ UNCHANGED <<cls, METHODS, request, kwargs, renderer, method, verb,
                   returned, params, call, context, exc, raised, exitResult>>

\* if renderer: return renderer(context) / return context
Render ==
    /\ pc = "render"
    /\ UNCHANGED <<appVars, concVars>>
    /\ IF renderer # NoRenderer
       THEN /\ trace' = Append(trace, "renderer")
            /\ \/ /\ output' = CallRenderer(renderer, context)
                  /\ pc' = "exit"
                  /\ UNCHANGED <<exc, raised>>
               \/ /\ output' = output
                  /\ Raise(Exc("RenderError", renderer.name))
       ELSE /\ trace' = trace
            /\ output' = context
            /\ pc' = "exit"
            /\ UNCHANGED <<exc, raised>>
    /\ UNCHANGED <<cls, METHODS, request, kwargs, renderer, method, verb,
                   returned, params, call, context, exitResult>>

\* leaving the with-block: __exit__(type, value, traceback) is called; a true
\* return value suppresses the exception in flight and __call__ falls off its
\* end, an exception raised by __exit__ replaces whatever was in flight
Exit ==
    /\ pc = "exit"
    /\ UNCHANGED <<appVars, concVars>>
    /\ trace' = Append(trace, "__exit__")
    /\ pc' = "done"
    /\ \E r \in {"falsy", "truthy", "raise"} :
          /\ exitResult' = r
          /\ exc' = AfterExit(r, exc)
          /\ output' = IF exc # NoExc \/ r = "raise" THEN NoneVal ELSE output
    /\ UNCHANGED <<cls, METHODS, request, kwargs, renderer, method, verb,
                   returned, params, call, context, raised>>

\* the dispatch is over; the handler waits for the next request
NextRequest ==
    /\ pc = "done"
    /\ UNCHANGED <<appVars, concVars>>
    /\ pc' = "idle"
    /\ request' = NoRequest
    /\ kwargs' = NoneVal
    /\ renderer' = NoRenderer
    /\ method' = None
    /\ verb' = None
    /\ returned' = NoneVal
    /\ params' = NoneVal
    /\ call' = NoCall
    /\ context' = NoneVal
    /\ exc' = NoExc
    /\ raised' = NoExc
    /\ exitResult' = "not run"
    /\ output' = NoneVal
    /\ trace' = <<>>
    /\ UNCHANGED <<cls, METHODS>>

Next ==
    \/ Construct
    \/ Call
    \/ FindRenderer
    \/ ResolveRestVerb
    \/ Validate
    \/ Invoke
    \/ Render
    \/ Exit
    \/ NextRequest

Spec == Init /\ [][Next]_vars

----------------------------------------------------------------------------
(* add_handler and the app it registers with *)

\* BaseHandler's own class attributes
BaseHandlerClass ==
    [ROUTE |-> None, TEMPLATE_NAME |-> None, DEFAULT_FORMAT |-> "html",
     METHOD_HACK |-> "__method__", CUSTOM_RENDERER |-> BaseCustomRenderer,
     attrs |-> {}]

\* the subclasses handed to add_handler: a class name, a ROUTE (left unset by
\* some) and verb methods; everything else is inherited
AppClassNames == {"Hello", "AuthenticatedUser", "SignedUserFriends"}

RouteOf(name) ==
    CASE name = "Hello" -> "/"
      [] name = "AuthenticatedUser" -> "/me"
      [] OTHER -> "/me/friends"

AppClasses ==
    {[name |-> n,
      cls |-> [BaseHandlerClass EXCEPT !.ROUTE = r, !.attrs = a]] :
        <<n, r, a>> \in
            {t \in AppClassNames \X {None, "/", "/me", "/me/friends"}
                                 \X {{"get"}, {"get", "put"}, {"post", "put"}} :
                t[2] \in {None, RouteOf(t[1])}}}

RECURSIVE SeqsUpTo(_, _)
SeqsUpTo(S, n) ==
    IF n = 0
    THEN {<<>>}
    ELSE LET shorter == SeqsUpTo(S, n - 1)
         IN  shorter \cup {Append(q, x) : q \in shorter, x \in S}

\* the argument lists of add_handler: distinct classes
HandlerLists ==
    {hs \in SeqsUpTo(AppClasses, MaxHandlers) :
        \A i, j \in DOMAIN hs : hs[i].name = hs[j].name => i = j}

\* __init__ without the test of self.ROUTE
Constructible_Unchecked(h) == TRUE

\* __init__ gets past its test of self.ROUTE
Constructible(h) == h.cls.ROUTE # None

\* handler_cls(): the instance, with the METHODS its __init__ computed
Instance(h) ==
    [name |-> h.name, cls |-> h.cls, METHODS |-> ComputeMethods(h.cls)]

\* the rule with every possible method allowed
UrlRule_AllMethods(handler) ==
    [rule |-> handler.cls.ROUTE, endpoint |-> handler.name,
     view_func |-> handler, methods |-> POSSIBLE_METHODS]

\* the arguments of app.add_url_rule
UrlRule(handler) ==
    [rule |-> handler.cls.ROUTE, endpoint |-> handler.name,
     view_func |-> handler, methods |-> handler.METHODS]

\* the loop of add_handler: it ends at the first class whose construction
\* raises
RECURSIVE AddRules(_, _)
AddRules(hs, map) ==
    IF hs = <<>> \/ ~Constructible(Head(hs))
    THEN map
    ELSE AddRules(Tail(hs), Append(map, UrlRule(Instance(Head(hs)))))

\* the methods a registered rule lets through: those it was registered with,
\* and HEAD along with GET
RuleMethods(r) ==
    Range(r.methods) \cup (IF "GET" \in Range(r.methods) THEN {"HEAD"} ELSE {})

InitApp ==
    /\ handlers \in HandlerLists
    /\ url_map = <<>>
    /\ cls = BaseHandlerClass
    /\ METHODS = <<>>
    /\ pc = "app"
    /\ ResetDispatch
    /\ NoDispatches

\* add_handler(app, *handlers)
AddHandler ==
    /\ pc = "app"
    /\ url_map' = AddRules(handlers, url_map)
    /\ IF Len(url_map') = Len(handlers)
       THEN /\ pc' = "serving"
            /\ exc' = exc
       ELSE /\ pc' = "add_handler raised"
            /\ exc' = Exc("NotImplementedError", "ROUTE")
    /\ UNCHANGED <<cls, METHODS, request, kwargs, renderer, method, verb,
                   returned, params, call, context, raised, exitResult,
                   output, trace, handlers, concVars>>

\* the app receives a request for the route of one of its rules: the rule's
\* methods decide whether its view function, the handler instance, is called
Route ==
    /\ pc = "serving"
    /\ \E i \in DOMAIN url_map, req \in Requests, kw \in KwargsChoices :
          /\ cls' = url_map[i].view_func.cls
          /\ METHODS' = url_map[i].view_func.METHODS
          /\ request' = req
          /\ kwargs' = kw
          /\ IF req.method \in RuleMethods(url_map[i])
             THEN /\ pc' = "idle"
                  /\ exc' = exc
             ELSE /\ pc' = "done"
                  /\ exc' = Exc("MethodNotAllowed", req.method)
    /\ UNCHANGED <<renderer, method, verb, returned, params, call, context,
                   raised, exitResult, output, trace, appVars, concVars>>

\* the app has answered; it waits for the next request
Respond ==
    /\ pc = "done"
    /\ pc' = "serving"
    /\ request' = NoRequest
    /\ kwargs' = NoneVal
    /\ renderer' = NoRenderer
    /\ method' = None
    /\ verb' = None
    /\ returned' = NoneVal
    /\ params' = NoneVal
    /\ call' = NoCall
    /\ context' = NoneVal
    /\ exc' = NoExc
    /\ raised' = NoExc
    /\ exitResult' = "not run"
    /\ output' = NoneVal
    /\ trace' = <<>>
    /\ UNCHANGED <<cls, METHODS, appVars, concVars>>

NextApp ==
    \/ AddHandler
    \/ Route
    \/ Call
    \/ FindRenderer
    \/ ResolveRestVerb
    \/ Validate
    \/ Invoke
    \/ Render
    \/ Exit
    \/ Respond

SpecApp == InitApp /\ [][NextApp]_vars

----------------------------------------------------------------------------
(* Concurrent invocations of one handler instance *)

\* add_handler registers one instance per class: every request for the route
\* calls that instance, each call in a frame of its own

DispatchIds == 1 .. MaxDispatches

\* the locals of one __call__ invocation and its request context
NoFrame ==
    [pc |-> "idle", request |-> NoRequest, kwargs |-> NoneVal,
     renderer |-> NoRenderer, method |-> None, verb |-> None,
     returned |-> NoneVal, params |-> NoneVal, call |-> NoCall,
     context |-> NoneVal, exc |-> NoExc, output |-> NoneVal]

ConcClasses ==
    {c \in HandlerClasses :
        /\ c.ROUTE = "/"
        /\ c.TEMPLATE_NAME \in {None, "profile"}
        /\ c.DEFAULT_FORMAT = "html"
        /\ c.METHOD_HACK = "__method__"
        /\ c.CUSTOM_RENDERER = BaseCustomRenderer
        /\ c.attrs \in {{"get", "put"}, {"put", ValidatorName("put")}}}

ConcRequests ==
    {r \in Requests :
        /\ r.method \in {"GET", "POST"}
        /\ r.form \in {EmptyMap, "__method__" :> "put"}
        /\ r.values \in {EmptyMap, "format" :> "json"}}

ConcValidatorReturns == {Tuple(<<"user", "page">>), Dict(<<"user=u">>)}

\* a flask.request that is one global slot: the context pushed last
flask_request_Global(d) == dispatches[pushed].request

\* flask.request: the request context of the invocation that reads it
flask_request(d) == dispatches[d].request

InitConc ==
    /\ cls \in ConcClasses
    /\ METHODS = ComputeMethods(cls)
    /\ pc = "concurrent"
    /\ ResetDispatch
    /\ NoApp
    /\ dispatches = [d \in DispatchIds |-> NoFrame]
    /\ pushed = 0

ConcFrame ==
    UNCHANGED <<cls, METHODS, pc, request, kwargs, renderer, method, verb,
                returned, params, call, context, exc, raised, exitResult,
                output, trace, appVars>>

\* the framework pushes the request context and calls the handler
ConcCall(d) ==
    /\ pc = "concurrent"
    /\ dispatches[d].pc = "idle"
    /\ \E req \in ConcRequests :
          dispatches' = [dispatches EXCEPT
                            ![d] = [@ EXCEPT !.pc = "find",
                                             !.request = req,
                                             !.kwargs = Dict(<<"id=7">>)]]
    /\ pushed' = d
    /\ ConcFrame

\* renderer = self._find_renderer()
ConcFindRenderer(d) ==
    /\ dispatches[d].pc = "find"
    /\ dispatches' = [dispatches EXCEPT
                         ![d] = [@ EXCEPT
                                    !.pc = "resolve",
                                    !.renderer =
                                        _find_renderer(cls, flask_request(d))]]
    /\ UNCHANGED pushed
    /\ ConcFrame

\* verb = self._resolve_rest_verb().lower()
ConcResolveRestVerb(d) ==
    /\ dispatches[d].pc = "resolve"
    /\ LET m == EffectiveMethod(cls, flask_request(d))
       IN  dispatches' = [dispatches EXCEPT
                             ![d] = IF Allowed(METHODS, m)
                                    THEN [@ EXCEPT !.pc = "validate",
                                                   !.method = m,
                                                   !.verb = Lower(m)]
                                    ELSE [@ EXCEPT !.pc = "done",
                                                   !.method = m,
                                                   !.exc =
                                                       InvalidMethodError(m)]]
    /\ UNCHANGED pushed
    /\ ConcFrame

\* the if validator / else
ConcValidate(d) ==
    /\ dispatches[d].pc = "validate"
    /\ LET f == dispatches[d]
       IN  \E r \in ConcValidatorReturns :
              dispatches' = [dispatches EXCEPT
                                ![d] = IF HasValidator(cls, f.verb)
                                       THEN [f EXCEPT !.pc = "invoke",
                                                      !.returned = r,
                                                      !.params = r]
                                       ELSE [f EXCEPT !.pc = "invoke",
                                                      !.params = f.kwargs]]
    /\ UNCHANGED pushed
    /\ ConcFrame

\* context = method(...)
ConcInvoke(d) ==
    /\ dispatches[d].pc = "invoke"
    /\ LET f == dispatches[d]
       IN  \E r \in MethodReturns :
              dispatches' = [dispatches EXCEPT
                                ![d] = [f EXCEPT
                                           !.pc = "render",
                                           !.call =
                                               Invocation(f.verb, f.params),
                                           !.context = r]]
    /\ UNCHANGED pushed
    /\ ConcFrame

\* if renderer: return renderer(context) / return context
ConcRender(d) ==
    /\ dispatches[d].pc = "render"
    /\ LET f == dispatches[d]
       IN  dispatches' = [dispatches EXCEPT
                             ![d] = [f EXCEPT
                                        !.pc = "done",
                                        !.output =
                                            IF f.renderer # NoRenderer
                                            THEN CallRenderer(f.renderer,
                                                              f.context)
                                            ELSE f.context]]
    /\ UNCHANGED pushed
    /\ ConcFrame

NextConc ==
    \/ \E d \in DispatchIds : ConcCall(d)
    \/ \E d \in DispatchIds : ConcFindRenderer(d)
    \/ \E d \in DispatchIds : ConcResolveRestVerb(d)
    \/ \E d \in DispatchIds : ConcValidate(d)
    \/ \E d \in DispatchIds : ConcInvoke(d)
    \/ \E d \in DispatchIds : ConcRender(d)

SpecConc == InitConc /\ [][NextConc]_vars

----------------------------------------------------------------------------
(* Vocabulary of the properties *)

\* the capability set of the constructed handler
Capabilities == Range(METHODS)

\* verb resolution has computed an effective verb outside the capability set
NotCapable == method # None /\ Upper(method) \notin Capabilities

AllValidatorNames ==
    {ValidatorName(Lower(POSSIBLE_METHODS[i])) : i \in DOMAIN POSSIBLE_METHODS}

\* no validation method and no verb method has been invoked
NothingInvoked ==
    /\ Range(trace) \cap (VerbMethodNames \cup AllValidatorNames) = {}
    /\ call = NoCall

Count(name) == Cardinality({i \in DOMAIN trace : trace[i] = name})

\* __enter__ was called and returned
EnterCompleted == trace # <<>> /\ exc.type # "EnterError"

\* the override field is configured, present and non-empty on a POST
OverrideApplies ==
    /\ request.method = "POST"
    /\ cls.METHOD_HACK \notin {None, ""}
    /\ cls.METHOD_HACK \in DOMAIN request.form
    /\ request.form[cls.METHOD_HACK] # ""

\* the format the request asks for, the handler's default if it asks for none
RequestedFormat ==
    IF "format" \in DOMAIN request.values
    THEN request.values["format"]
    ELSE cls.DEFAULT_FORMAT

RendererResolved == "_find_renderer" \in Range(trace)

----------------------------------------------------------------------------
(* Properties *)

\* C1: an effective verb outside the capability set makes verb resolution
\* raise MethodNotAllowed carrying the attempted verb, and no other error.
C1_MethodNotAllowed ==
    NotCapable => raised = Exc("MethodNotAllowed", method)

\* C2, as stated: with an effective verb outside the capability set the
\* dispatch ends in failure and neither a validation method nor a verb
\* method is invoked.
C2_EndsInFailure ==
    (pc = "done" /\ NotCapable) => (exc # NoExc /\ NothingInvoked)

\* C2, amended: with an effective verb outside the capability set the
\* pipeline stops at verb resolution with an error, no validation method and
\* no verb method is invoked, and the dispatch ends in failure unless the
\* teardown hook returns a true value, in which case it returns None.
C2_StopsAtVerbResolution ==
    NotCapable =>
        /\ raised # NoExc
        /\ pc \in {"exit", "done"}
        /\ NothingInvoked
        /\ pc = "done" =>
              \/ exc # NoExc
              \/ exitResult = "truthy" /\ output = NoneVal

C2_Witness ==
    /\ pc = "done"
    /\ request.method = "POST"
    /\ method = "DELETE"
    /\ Capabilities = {"GET", "PUT"}
    /\ exc # NoExc

\* C3: the effective verb is the override field's value when the method is
\* POST and the override field is configured, present and non-empty; in
\* every other case it is the literal request method.
C3_VerbResolution ==
    method # None =>
        method = IF OverrideApplies
                 THEN request.form[cls.METHOD_HACK]
                 ELSE request.method

C3_Witness ==
    /\ request.method = "POST"
    /\ method = "put"
    /\ verb = "put"

\* C4: __exit__ runs exactly once in every dispatch whose __enter__
\* completed, however the dispatch ends; __enter__ is the first call of the
\* dispatch and __exit__ the last, after every pipeline step.
C4_TeardownOnce ==
    /\ (pc = "done" /\ EnterCompleted) =>
          /\ Count("__exit__") = 1
          /\ trace[Len(trace)] = "__exit__"
    /\ pc # "done" => Count("__exit__") = 0
    /\ trace # <<>> => (trace[1] = "__enter__" /\ Count("__enter__") = 1)

C4_Witness ==
    /\ pc = "done"
    /\ raised.type = "NotFound"
    /\ Count("__exit__") = 1

\* C5, as stated: every failure raised inside the pipeline reaches the caller
\* unchanged, also for handlers that override the hooks.
C5_PropagatesUnchanged ==
    (pc = "done" /\ raised # NoExc) => exc = raised

\* C5, amended: a failure raised inside the pipeline reaches the caller
\* unchanged when __exit__ returns a false value; an __exit__ that returns a
\* true value swallows it and the dispatch returns None, an __exit__ that
\* raises replaces it.
C5_PropagatesUnlessExit ==
    (pc = "done" /\ raised # NoExc) =>
        /\ exitResult = "falsy" => exc = raised
        /\ exitResult = "truthy" => (exc = NoExc /\ output = NoneVal)
        /\ exitResult = "raise" => exc = Exc("ExitError", "__exit__")

C5_Witness ==
    /\ pc = "done"
    /\ raised.type = "NotFound"
    /\ exitResult = "falsy"
    /\ exc = raised

\* C6: with a validation method for the effective verb, the verb method is
\* invoked with exactly what the validator returned and never with the raw
\* keyword arguments; without one it is invoked with the keyword arguments
\* as named parameters.
C6_Parameters ==
    call # NoCall =>
        /\ call.name = verb
        /\ IF ValidatorName(verb) \in cls.attrs
           THEN /\ ValidatorName(verb) \in Range(trace)
                /\ CASE returned.t \in {"list", "tuple"} ->
                          /\ call.kwargs = <<>>
                          /\ Len(call.args) = Len(returned.v)
                          /\ \A i \in DOMAIN returned.v :
                                call.args[i] = Str(returned.v[i])
                     [] returned.t = "dict" ->
                          /\ call.args = <<>>
                          /\ call.kwargs = returned.v
                     [] OTHER ->
                          /\ call.args = <<returned>>
                          /\ call.kwargs = <<>>
                /\ returned # kwargs =>
                      ~(call.args = <<>> /\ call.kwargs = kwargs.v)
           ELSE /\ call.args = <<>>
                /\ call.kwargs = kwargs.v

C6_Witness ==
    /\ call # NoCall
    /\ ValidatorName(verb) \in Range(trace)
    /\ returned.t = "dict"
    /\ kwargs.v # <<>>

\* C7: the renderer is the function registered for the requested format (the
\* default format if none is requested), template or not; failing that the
\* template renderer for "<TEMPLATE_NAME>.<format>" if a template name is
\* set; failing that none.
C7_RendererResolution ==
    RendererResolved =>
        IF RequestedFormat \in DOMAIN cls.CUSTOM_RENDERER
        THEN renderer = Func(cls.CUSTOM_RENDERER[RequestedFormat])
        ELSE IF cls.TEMPLATE_NAME \notin {None, ""}
             THEN /\ renderer.kind = "jinja"
                  /\ renderer.path = <<cls.TEMPLATE_NAME, ".", RequestedFormat>>
             ELSE renderer = NoRenderer

C7_Witness ==
    /\ RendererResolved
    /\ cls.TEMPLATE_NAME = "profile"
    /\ cls.DEFAULT_FORMAT = "html"
    /\ RequestedFormat = "json"
    /\ renderer = Func("jsonify")

\* C8: a dispatch that succeeds hands back the renderer applied to the verb
\* method's result if a renderer was resolved, and the result itself if not.
C8_Output ==
    (pc = "done" /\ exitResult # "not run" /\ raised = NoExc /\ exc = NoExc) =>
        output = IF renderer # NoRenderer
                 THEN CallRenderer(renderer, context)
                 ELSE context

C8_Witness ==
    /\ pc = "done"
    /\ exc = NoExc
    /\ cls.attrs = {"get"}
    /\ cls.TEMPLATE_NAME = None
    /\ cls.DEFAULT_FORMAT = "html"
    /\ request.values = EmptyMap
    /\ context = Str("hello world")
    /\ output = context

\* C9, as stated: a format is looked up in the handler's own map and then in
\* the built-in defaults, so "json" resolves to the built-in JSON renderer
\* for a handler whose own map has no "json" entry.
C9_Layered ==
    (RendererResolved /\ RequestedFormat \notin DOMAIN cls.CUSTOM_RENDERER
                      /\ RequestedFormat \in DOMAIN BaseCustomRenderer) =>
        renderer = Func(BaseCustomRenderer[RequestedFormat])

\* C9, amended: a format is looked up in one map only, the handler's
\* CUSTOM_RENDERER attribute; a handler that defines its own map replaces the
\* built-in defaults, and a format missing from it resolves to no registered
\* function, "json" included.
C9_SingleMap ==
    RendererResolved =>
        /\ RequestedFormat \in DOMAIN cls.CUSTOM_RENDERER =>
              renderer = Func(cls.CUSTOM_RENDERER[RequestedFormat])
        /\ RequestedFormat \notin DOMAIN cls.CUSTOM_RENDERER =>
              renderer.kind # "func"

C9_Witness ==
    /\ RendererResolved
    /\ cls.CUSTOM_RENDERER = ("xml" :> "to_xml")
    /\ RequestedFormat = "json"
    /\ renderer.kind # "func"

\* C10: the capability set of a constructed handler is exactly the set of
\* verbs of POSSIBLE_METHODS whose lower-cased name is a method of the
\* handler.
C10_Capabilities ==
    pc \notin {"new", "init failed"} =>
        Capabilities = {POSSIBLE_METHODS[i] : i \in
                          {j \in DOMAIN POSSIBLE_METHODS :
                              Lower(POSSIBLE_METHODS[j]) \in cls.attrs}}

C10_Witness ==
    /\ pc = "idle"
    /\ cls.attrs = {"get", "put"}
    /\ METHODS = <<"GET", "PUT">>

\* C11: constructing a handler whose ROUTE is unset fails with
\* NotImplementedError, and add_handler registers no rule for such a handler.
C11_NoRuleWithoutRoute ==
    /\ \A i \in DOMAIN url_map :
          /\ url_map[i].rule # None
          /\ url_map[i].view_func.cls.ROUTE # None
    /\ pc # "app" =>
          \A i \in DOMAIN handlers :
              handlers[i].cls.ROUTE = None =>
                  /\ pc = "add_handler raised"
                  /\ exc = Exc("NotImplementedError", "ROUTE")
                  /\ \A j \in DOMAIN url_map :
                        url_map[j].endpoint # handlers[i].name

C11_Witness ==
    /\ pc = "add_handler raised"
    /\ Len(handlers) = 2
    /\ handlers[2].cls.ROUTE = None
    /\ Len(url_map) = 1

\* C12: a POST whose override field names a verb of the capability set is
\* dispatched to that verb's method, also when the handler has no post
\* method: the effective verb is the named verb and its method is invoked
\* (unless setup or validation failed first).
C12_OverrideDispatched ==
    (pc = "done" /\ OverrideApplies
                 /\ Upper(request.form[cls.METHOD_HACK]) \in Capabilities) =>
        /\ exc.type # "MethodNotAllowed"
        /\ exc.type # "EnterError" =>
              method = request.form[cls.METHOD_HACK]
        /\ (exc.type # "EnterError" /\ raised.type # "NotFound") =>
              Lower(request.form[cls.METHOD_HACK]) \in Range(trace)

\* C13: the template renderer hands the template engine the identifier
\* "<TEMPLATE_NAME>.<format>" and the verb method's result as the context.
C13_TemplateGetsContext ==
    (pc = "done" /\ raised = NoExc /\ exc = NoExc /\ renderer.kind = "jinja") =>
        /\ output.by = "render_template"
        /\ output.path = <<cls.TEMPLATE_NAME, ".", RequestedFormat>>
        /\ output.arg = context

\* what one invocation yields when it runs alone: the effective verb, the
\* invocation of the verb method and the output, given the request, the
\* keyword arguments and what the validator and the verb method return
Alone(c, meths, req, kw, ret, ctx) ==
    LET r == _find_renderer(c, req)
        m == EffectiveMethod(c, req)
        p == IF HasValidator(c, Lower(m)) THEN ret ELSE kw
    IN  IF Allowed(meths, m)
        THEN [method |-> m, call |-> Invocation(Lower(m), p),
              output |-> IF r # NoRenderer THEN CallRenderer(r, ctx) ELSE ctx]
        ELSE [method |-> m, call |-> NoCall, output |-> NoneVal]

\* C14: under every interleaving of concurrent invocations of one handler,
\* each resolves the verb, passes the parameters and returns the output it
\* would when run alone, and the handler is not written.
C14_NoInterference ==
    pc = "concurrent" =>
        /\ METHODS = ComputeMethods(cls)
        /\ \A d \in DispatchIds :
              LET f == dispatches[d]
                  alone == Alone(cls, METHODS, f.request, f.kwargs,
                                 f.returned, f.context)
              IN  /\ f.method # None => f.method = alone.method
                  /\ f.pc \in {"render", "done"} => f.call = alone.call
                  /\ f.pc = "done" => f.output = alone.output

C14_Witness ==
    /\ pc = "concurrent"
    /\ pushed = 1
    /\ dispatches[1].pc = "done"
    /\ dispatches[1].verb = "put"
    /\ dispatches[1].output # NoneVal
    /\ dispatches[2].pc = "render"
    /\ dispatches[2].verb = "get"

\* C15: a list or tuple parameter set is spread as positional parameters, a
\* mapping as named parameters, and any other value, None and strings
\* included, is passed as exactly one positional parameter.
C15_InvocationForm ==
    call # NoCall =>
        CASE params.t \in {"list", "tuple"} ->
                /\ call.args = [i \in DOMAIN params.v |-> Str(params.v[i])]
                /\ call.kwargs = <<>>
          [] params.t = "dict" ->
                /\ call.args = <<>>
                /\ call.kwargs = params.v
          [] OTHER ->
                /\ Len(call.args) = 1
                /\ call.args[1] = params
                /\ call.kwargs = <<>>

C15_Witness ==
    /\ call # NoCall
    /\ params = NoneVal
    /\ call.args = <<NoneVal>>

\* the pipeline step a callable of the trace belongs to
Stage(name) ==
    CASE name = "__enter__" -> 0
      [] name = "_find_renderer" -> 1
      [] name = "_resolve_rest_verb" -> 2
      [] name \in AllValidatorNames -> 3
      [] name \in VerbMethodNames -> 4
      [] name = "renderer" -> 5
      [] OTHER -> 6

\* C16: within a dispatch the steps run in the order verb resolution,
\* validation, invocation, rendering, each at most once; the verb method is
\* not invoked after a failed validation and the renderer is not applied
\* after a failed verb method.
C16_StepOrder ==
    /\ \A i, j \in DOMAIN trace : i < j => Stage(trace[i]) < Stage(trace[j])
    /\ raised.type = "NotFound" =>
          /\ Range(trace) \cap VerbMethodNames = {}
          /\ call = NoCall
    /\ raised.type = "MethodError" =>
          /\ "renderer" \notin Range(trace)
          /\ output = NoneVal

C16_Witness ==
    trace = <<"__enter__", "_find_renderer", "_resolve_rest_verb",
              "validate_put_request", "put", "renderer", "__exit__">>

\* C17: no dispatch, successful or failed, changes the handler: its class
\* attributes (route, default format, override field, renderer map) and its
\* capability set stay as they were after construction, so that a renderer
\* resolved for a format is always the one the unchanged handler yields.
C17_HandlerUnchanged ==
    /\ [][pc # "new" => (cls' = cls /\ METHODS' = METHODS)]_vars
    /\ [](RendererResolved => renderer = _find_renderer(cls, request))

C17_Witness ==
    /\ pc = "done"
    /\ raised.type = "MethodError"
    /\ cls.attrs = {"get", "put"}
    /\ METHODS = <<"GET", "PUT">>

\* C18: add_handler registers, in the order given, exactly one rule per
\* handler class: its route, its class name, its instance as the callable,
\* and as allowed verbs exactly the capability set of the instance.
C18_RulesRegistered ==
    pc # "app" =>
        /\ Len(url_map) <= Len(handlers)
        /\ (\A i \in DOMAIN handlers : handlers[i].cls.ROUTE # None)
              => Len(url_map) = Len(handlers)
        /\ \A i \in DOMAIN url_map :
              /\ url_map[i].rule = handlers[i].cls.ROUTE
              /\ url_map[i].endpoint = handlers[i].name
              /\ url_map[i].view_func.name = handlers[i].name
              /\ url_map[i].view_func.cls = handlers[i].cls
              /\ Range(url_map[i].methods) = Range(url_map[i].view_func.METHODS)
              /\ Range(url_map[i].methods) =
                    {POSSIBLE_METHODS[k] : k \in
                        {j \in DOMAIN POSSIBLE_METHODS :
                            Lower(POSSIBLE_METHODS[j]) \in handlers[i].cls.attrs}}

C18_Witness ==
    /\ pc = "serving"
    /\ Len(url_map) = 2
    /\ url_map[1].endpoint = "AuthenticatedUser"
    /\ url_map[1].methods = <<"POST", "PUT">>
    /\ url_map[2].endpoint = "Hello"
    /\ url_map[2].rule = "/"

\* C19: the validation method and the verb method are the ones named after
\* the effective verb, not after the literal request method.
C19_SelectedByEffectiveVerb ==
    /\ \A i \in DOMAIN trace :
          /\ trace[i] \in VerbMethodNames => trace[i] = Lower(method)
          /\ trace[i] \in AllValidatorNames =>
                trace[i] = ValidatorName(Lower(method))
    /\ call # NoCall =>
          /\ call.name = Lower(method)
          /\ ValidatorName(Lower(method)) \in cls.attrs =>
                ValidatorName(Lower(method)) \in Range(trace)

C19_Witness ==
    /\ request.method = "POST"
    /\ method = "put"
    /\ "validate_put_request" \in Range(trace)
    /\ call.name = "put"

\* C20: when __enter__ fails, the dispatch is over at once: no renderer
\* resolution, verb resolution, validation or verb method runs, __exit__ is
\* not called, and the error of __enter__ is what reaches the caller.
C20_SetupFailure ==
    /\ exc.type = "EnterError" =>
          /\ pc = "done"
          /\ trace = <<"__enter__">>
          /\ exitResult = "not run"
          /\ renderer = NoRenderer
          /\ method = None
          /\ NothingInvoked
          /\ output = NoneVal
    /\ (pc = "done" /\ trace # <<>> /\ Count("__exit__") = 0) =>
          exc = Exc("EnterError", "__enter__")

C20_Witness ==
    /\ pc = "done"
    /\ exc.type = "EnterError"
    /\ request.method = "PUT"

====
